---- MODULE Spec2Model ----
(***************************************************************************)
(* State-machine model of the interview-answer analysis pipeline:          *)
(*   - StaticAnalysisService (analyzeAudioMetrics, generateStaticAnalysis, *)
(*     analyzeAnswer) -- the rule-based metrics and fallback scorer;       *)
(*   - GeminiAnalysisService (processAudioResponse, analyzeAnswer) -- the  *)
(*     orchestrator and the remote analysis client.                        *)
(*                                                                         *)
(* Text is a sequence of symbols.  A symbol is one character ("tick" is    *)
(* the backtick; a newline, a blank, a letter) or one JSON lexeme (a       *)
(* brace, a comma, a whole "key": value member, a scalar).  Signal levels  *)
(* are in thousandths (0.015 is 15); a quotient the code computes in       *)
(* floating point is kept as a fraction [num, den] and compared by         *)
(* cross-multiplication.                                                   *)
(***************************************************************************)
EXTENDS Integers, Sequences, FiniteSets, TLC

VARIABLES
    pc,            \* position of the one call in flight
    useDirect,     \* GEMINI_KEY is set and starts with 'AIza' (read at startup)
    request,       \* the AnalysisRequest of the call
    audioMetrics,  \* processAudioResponse's local: <<>> (null) or <<metrics>>
    now,           \* Date.now()
    startTime,     \* analyzeAnswer's local startTime
    fetchLog,      \* the network requests issued during the call
    data,          \* analyzeAnswer's local: <<>> or <<response envelope>>
    analysisText,  \* analyzeAnswer's local analysisText
    cleanedText,   \* analyzeAnswer's local cleanedText
    remoteResult,  \* <<>> or <<the AnswerAnalysis the remote client returned>>
    result,        \* <<>> or <<the AnswerAnalysis the call returned>>
    producer,      \* which producer made the result
    staticCalls,   \* generateStaticAnalysis invocations during the call
    remoteError,   \* "" or the error the remote client threw during the call
    audioPreviewRef,   \* VoiceLibrary: <<>> (null) or <<index into audios>>
    isPlaying,         \* VoiceLibrary: the isPlaying state
    currentlyPlaying,  \* VoiceLibrary: <<>> (null) or <<file id>>
    audios             \* the Audio elements created so far, in creation order

serviceVars == <<pc, useDirect, request, audioMetrics, now, startTime, fetchLog, data,
                 analysisText, cleanedText, remoteResult, result, producer, staticCalls,
                 remoteError>>

playerVars == <<audioPreviewRef, isPlaying, currentlyPlaying, audios>>

vars == <<serviceVars, playerVars>>

(***************************************************************************)
(* Bounds of the model.                                                    *)
(***************************************************************************)
MaxTranscriptLen == 2   \* transcripts are all texts over {a, blank} up to this length
MaxInnerLen == 2        \* inner texts wrapped in code fences, up to this length
MaxFreeLen == 3         \* unfenced generated texts, up to this length
MaxCallTranscriptLen == 1  \* the same for the orchestrator's requests
MaxClock == 1           \* the clock stops advancing here
ScenarioWords == 120    \* words of the long scenario transcript
LongDuration == 60      \* a duration well above both thresholds
NumFiles == 2           \* voice files listed in the library
MaxElements == 4        \* Audio elements created during one behaviour

(***************************************************************************)
(* Program constants.                                                      *)
(***************************************************************************)
MinBlobSize == 2000        \* audioBlob.size >= 2000
MinBytesPerSecond == 300   \* bytesPerSecond >= 300
MaxRmsThreshold == 15      \* maxRms >= 0.015
AvgRmsThreshold == 8       \* avgRms >= 0.008
ShortLimit == 10           \* duration < 10
GoodLimit == 45            \* duration > 45
StaticProcessingTime == 100

(***************************************************************************)
(* Text helpers (String.prototype.trim, startsWith, split, filter).        *)
(***************************************************************************)
Whitespace == {" ", "\n"}

RECURSIVE TrimStart(_)
TrimStart(s) ==
    IF s # <<>> /\ Head(s) \in Whitespace THEN TrimStart(Tail(s)) ELSE s

RECURSIVE TrimEnd(_)
TrimEnd(s) ==
    IF s # <<>> /\ s[Len(s)] \in Whitespace
    THEN TrimEnd(SubSeq(s, 1, Len(s) - 1))
    ELSE s

Trim(s) == TrimEnd(TrimStart(s))

StartsWith(s, p) == Len(s) >= Len(p) /\ SubSeq(s, 1, Len(p)) = p

EndsWith(s, p) == Len(s) >= Len(p) /\ SubSeq(s, Len(s) - Len(p) + 1, Len(s)) = p

\* s.split(/\s+/): the pieces between maximal runs of whitespace, empty
\* pieces at either end included ("" splits to [""], " " to ["", ""]).
\* One step of the left-to-right scan: st.acc holds the finished pieces,
\* st.cur the piece being read, st.inSep whether a separator run is open.
SplitStep(st, c) ==
    IF c \in Whitespace
    THEN IF st.inSep THEN st
         ELSE [acc |-> Append(st.acc, st.cur), cur |-> <<>>, inSep |-> TRUE]
    ELSE [acc |-> st.acc, cur |-> Append(st.cur, c), inSep |-> FALSE]

\* The scan over s[lo..hi] from state st (halving keeps the recursion shallow).
RECURSIVE SplitScan(_, _, _, _)
SplitScan(s, lo, hi, st) ==
    IF lo > hi THEN st
    ELSE IF lo = hi THEN SplitStep(st, s[lo])
    ELSE LET mid == (lo + hi) \div 2
             left == SplitScan(s, lo, mid, st)
         IN  \* the left half is scanned first, then the right half
             IF left.inSep \in BOOLEAN THEN SplitScan(s, mid + 1, hi, left) ELSE left

SplitWhitespace(s) ==
    LET end == SplitScan(s, 1, Len(s), [acc |-> <<>>, cur |-> <<>>, inSep |-> FALSE])
    IN  Append(end.acc, end.cur)

NonEmptyPiece(w) == Len(w) > 0

\* transcript.split(/\s+/).filter(w => w.length > 0).length
WordCount(transcript) == Len(SelectSeq(SplitWhitespace(transcript), NonEmptyPiece))

\* All texts over alphabet of length at most n.
TextsUpTo(alphabet, n) == UNION {[1..k -> alphabet] : k \in 0..n}

(***************************************************************************)
(* StaticAnalysisService                                                   *)
(***************************************************************************)
Fraction(n, d) == [num |-> n, den |-> d]

\* f >= k for a fraction with a positive denominator
FractionAtLeast(f, k) == f.num >= k * f.den

\* Variant: the signal test without the byte-size and byte-rate conditions.
HasAudioSignalAnySize(size, duration, maxRms, avgRms) ==
    /\ duration > 0
    /\ (maxRms >= MaxRmsThreshold \/ FractionAtLeast(avgRms, AvgRmsThreshold))

HasAudioSignal(size, duration, maxRms, avgRms) ==
    LET bytesPerSecond == IF duration > 0 THEN Fraction(size, duration)
                          ELSE Fraction(0, 1)
    IN  /\ duration > 0
        /\ size >= MinBlobSize
        /\ FractionAtLeast(bytesPerSecond, MinBytesPerSecond)
        /\ (maxRms >= MaxRmsThreshold \/ FractionAtLeast(avgRms, AvgRmsThreshold))

\* Variant: voice judged from the signal alone.
HasVoiceNoTranscriptRule(hasAudioSignal, wordCount) == hasAudioSignal

HasVoice(hasAudioSignal, wordCount) == hasAudioSignal \/ wordCount > 0

analyzeAudioMetrics(audioBlob, duration, transcript, audioLevelData) ==
    LET wordCount == WordCount(transcript)
        avgRms == IF audioLevelData.frames > 0
                  THEN Fraction(audioLevelData.sumRms, audioLevelData.frames)
                  ELSE Fraction(0, 1)
        maxRms == audioLevelData.maxRms
        hasAudioSignal == HasAudioSignal(audioBlob.size, duration, maxRms, avgRms)
    IN  [duration   |-> duration,
         hasVoice   |-> HasVoice(hasAudioSignal, wordCount),
         transcript |-> transcript,
         wordCount  |-> wordCount,
         avgRms     |-> avgRms,
         maxRms     |-> maxRms]

VoicePlaceholder == <<"[Voice detected but transcript unavailable]">>
NoVoicePlaceholder == <<"[No voice detected]">>

\* Variant: the score chosen by length alone.
StaticScoreFlat(hasVoice, isShort) == IF isShort THEN 20 ELSE 50

StaticScore(hasVoice, isShort) == IF ~hasVoice THEN 0 ELSE (IF isShort THEN 20 ELSE 50)

\* Variant: clarity on a scale ten times too large.
StaticSubScoresUnscaled(hasVoice) ==
    [clarity      |-> IF hasVoice THEN 600 ELSE 0,
     relevance    |-> IF hasVoice THEN 50 ELSE 0,
     structure    |-> IF hasVoice THEN 40 ELSE 0,
     completeness |-> IF hasVoice THEN 30 ELSE 0,
     confidence   |-> IF hasVoice THEN 50 ELSE 0]

StaticSubScores(hasVoice) ==
    [clarity      |-> IF hasVoice THEN 60 ELSE 0,
     relevance    |-> IF hasVoice THEN 50 ELSE 0,
     structure    |-> IF hasVoice THEN 40 ELSE 0,
     completeness |-> IF hasVoice THEN 30 ELSE 0,
     confidence   |-> IF hasVoice THEN 50 ELSE 0]

\* Variant: the two voiced cases exchanged.
StaticWeaknessesShortAsDefault(hasVoice, isShort) ==
    IF ~hasVoice THEN <<"No voice detected">>
    ELSE IF ~isShort THEN <<"Response is very short">>
         ELSE <<"AI analysis temporarily unavailable">>

StaticWeaknesses(hasVoice, isShort) ==
    IF ~hasVoice THEN <<"No voice detected">>
    ELSE IF isShort THEN <<"Response is very short">>
         ELSE <<"AI analysis temporarily unavailable">>

generateStaticAnalysis(metrics) ==
    LET duration == metrics.duration
        hasVoice == metrics.hasVoice
        transcript == metrics.transcript
        isShort == duration < ShortLimit
        score == StaticScore(hasVoice, isShort)
    IN  [overallScore |-> score,
         transcript |-> IF transcript # <<>> THEN transcript
                        ELSE IF hasVoice THEN VoicePlaceholder ELSE NoVoicePlaceholder,
         feedback |->
            [strengths   |-> IF hasVoice THEN <<"Audio captured successfully">> ELSE <<>>,
             weaknesses  |-> StaticWeaknesses(hasVoice, isShort),
             suggestions |-> IF ~hasVoice THEN <<"Check microphone settings">>
                             ELSE <<"Try recording a longer, more detailed response">>,
             detailedFeedback |-> IF ~hasVoice THEN "We could not detect any voice"
                                  ELSE "Your response has been captured"],
         scores |-> StaticSubScores(hasVoice),
         keyPoints |-> [covered |-> <<>>, missed |-> <<>>],
         timeManagement |->
            [duration   |-> duration,
             efficiency |-> IF duration > GoodLimit THEN "good" ELSE "average",
             pacing     |-> IF hasVoice THEN "Pacing detected" ELSE "N/A"],
         processingTime |-> StaticProcessingTime]

\* Variant: the transcript trimmed before it is echoed.
staticAnalyzeAnswerTrimmed(req) ==
    LET wordCount == WordCount(req.transcript)
    IN  generateStaticAnalysis(
            [duration   |-> req.audioDuration,
             hasVoice   |-> wordCount > 0,
             transcript |-> Trim(req.transcript),
             wordCount  |-> wordCount,
             avgRms     |-> Fraction(0, 1),
             maxRms     |-> 0])

\* StaticAnalysisService.analyzeAnswer (the transcript-only fallback)
staticAnalyzeAnswer(req) ==
    LET wordCount == WordCount(req.transcript)
    IN  generateStaticAnalysis(
            [duration   |-> req.audioDuration,
             hasVoice   |-> wordCount > 0,
             transcript |-> req.transcript,
             wordCount  |-> wordCount,
             avgRms     |-> Fraction(0, 1),
             maxRms     |-> 0])

(***************************************************************************)
(* GeminiAnalysisService.analyzeAnswer: removal of markdown code fences.   *)
(***************************************************************************)
Fence == <<"tick", "tick", "tick">>
JsonFence == Fence \o <<"j", "s", "o", "n">>

DropLast(s) == SubSeq(s, 1, Len(s) - 1)

\* s.replace(/^<fence>\n?/, '')
StripLeadingFence(s, fence) ==
    IF StartsWith(s, fence)
    THEN LET rest == SubSeq(s, Len(fence) + 1, Len(s))
         IN  IF rest # <<>> /\ Head(rest) = "\n" THEN Tail(rest) ELSE rest
    ELSE s

\* Variant: the closing fence left in place.
KeepTrailingFence(s) == s

\* s.replace(/\n?FENCE$/, ''), FENCE being three backticks
StripTrailingFence(s) ==
    IF EndsWith(s, Fence)
    THEN LET rest == SubSeq(s, 1, Len(s) - Len(Fence))
         IN  IF rest # <<>> /\ rest[Len(rest)] = "\n" THEN DropLast(rest) ELSE rest
    ELSE s

CleanText(text) ==
    LET trimmed == Trim(text)
    IN  IF StartsWith(trimmed, JsonFence)
        THEN StripTrailingFence(StripLeadingFence(trimmed, JsonFence))
        ELSE IF StartsWith(trimmed, Fence)
             THEN StripTrailingFence(StripLeadingFence(trimmed, Fence))
             ELSE trimmed

(***************************************************************************)
(* Inputs.                                                                 *)
(***************************************************************************)
\* "a a a ... " with n words, each followed by a blank
WordsText(n) == SubSeq([i \in 1..(2 * n) |-> IF i % 2 = 1 THEN "a" ELSE " "], 1, 2 * n)

LongTranscript == WordsText(ScenarioWords)

Transcripts == TextsUpTo({"a", " "}, MaxTranscriptLen) \cup {LongTranscript}

Durations == {0, 5, ShortLimit - 1, ShortLimit, GoodLimit, GoodLimit + 1, LongDuration}

\* a byte size that passes the byte-rate test at LongDuration
BigBlob == MinBytesPerSecond * LongDuration

BlobSizes == {0, 500, MinBlobSize - 1, MinBlobSize, BigBlob}

NoBlob == [present |-> FALSE, size |-> 0]
Blob(n) == [present |-> TRUE, size |-> n]

NoLevelData == [present |-> FALSE, maxRms |-> 0, sumRms |-> 0, frames |-> 0]
LevelData(m, s, f) == [present |-> TRUE, maxRms |-> m, sumRms |-> s, frames |-> f]

AllLevelData ==
    {LevelData(m, s, f) :
        m \in {0, MaxRmsThreshold - 1, MaxRmsThreshold},
        s \in {0, AvgRmsThreshold - 1, AvgRmsThreshold, 2 * AvgRmsThreshold},
        f \in {0, 1, 2}}

Request(t, d, b, l) ==
    [transcript |-> t, audioDuration |-> d, audioBlob |-> b, audioLevelData |-> l]

NoRequest == Request(<<>>, 0, NoBlob, NoLevelData)

\* Requests of the metrics specification: every combination of raw statistics.
MetricsRequests ==
    {Request(t, d, Blob(n), l) :
        t \in Transcripts, d \in Durations, n \in BlobSizes, l \in AllLevelData}

\* Audio Metrics values handed to the scorer directly, computed or not.
MetricsValues ==
    {[duration |-> d, hasVoice |-> v, transcript |-> t, wordCount |-> WordCount(t),
      avgRms |-> Fraction(0, 1), maxRms |-> 0] :
        d \in Durations, v \in BOOLEAN, t \in Transcripts}

(***************************************************************************)
(* Specification of the metrics extractor and the heuristic scorer alone:  *)
(* the inputs are drawn in the initial state, the actions apply the        *)
(* functions.                                                              *)
(***************************************************************************)
\* VoiceLibrary lines 40-42: the ref and the two states after mounting
PlayerInit ==
    /\ audioPreviewRef = <<>>
    /\ isPlaying = FALSE
    /\ currentlyPlaying = <<>>
    /\ audios = <<>>

IdleLocals ==
    /\ useDirect = FALSE
    /\ now = 0
    /\ startTime = 0
    /\ fetchLog = <<>>
    /\ data = <<>>
    /\ analysisText = <<>>
    /\ cleanedText = <<>>
    /\ remoteResult = <<>>
    /\ producer = "none"
    /\ staticCalls = 0
    /\ remoteError = ""

MetricsInit ==
    /\ IdleLocals
    /\ PlayerInit
    /\ result = <<>>
    /\ \/ /\ pc = "metricsInput"
          /\ request \in MetricsRequests
          /\ audioMetrics = <<>>
       \/ /\ pc = "metricsReady"
          /\ request = NoRequest
          /\ audioMetrics \in {<<m>> : m \in MetricsValues}

AnalyzeAudioMetricsStep ==
    /\ pc = "metricsInput"
    /\ audioMetrics' = <<analyzeAudioMetrics(request.audioBlob, request.audioDuration,
                                             request.transcript, request.audioLevelData)>>
    /\ pc' = "metricsReady"
    /\ UNCHANGED playerVars
    /\ UNCHANGED <<useDirect, request, now, startTime, fetchLog, data, analysisText,
                   cleanedText, remoteResult, result, producer, staticCalls, remoteError>>

GenerateStaticAnalysisStep ==
    /\ pc = "metricsReady"
    /\ result' = <<generateStaticAnalysis(audioMetrics[1])>>
    /\ pc' = "reportReady"
    /\ UNCHANGED playerVars
    /\ UNCHANGED <<useDirect, request, audioMetrics, now, startTime, fetchLog, data,
                   analysisText, cleanedText, remoteResult, producer, staticCalls,
                   remoteError>>

MetricsNext == AnalyzeAudioMetricsStep \/ GenerateStaticAnalysisStep

SpecMetrics == MetricsInit /\ [][MetricsNext]_vars

(***************************************************************************)
(* Specification of the fence-cleaning step alone.                         *)
(***************************************************************************)
CleanAlphabet == {"tick", "\n", " ", "x", "j"}

InnerTexts == TextsUpTo(CleanAlphabet, MaxInnerLen)

JsonFenced(t) == JsonFence \o <<"\n">> \o t \o <<"\n">> \o Fence
PlainFenced(t) == Fence \o <<"\n">> \o t \o <<"\n">> \o Fence

CleanInputs ==
    TextsUpTo(CleanAlphabet, MaxFreeLen)
        \cup {JsonFenced(t) : t \in InnerTexts}
        \cup {PlainFenced(t) : t \in InnerTexts}

CleanInit ==
    /\ pc = "cleanInput"
    /\ PlayerInit
    /\ useDirect = FALSE
    /\ request = NoRequest
    /\ audioMetrics = <<>>
    /\ now = 0
    /\ startTime = 0
    /\ fetchLog = <<>>
    /\ data = <<>>
    /\ analysisText \in CleanInputs
    /\ cleanedText = <<>>
    /\ remoteResult = <<>>
    /\ result = <<>>
    /\ producer = "none"
    /\ staticCalls = 0
    /\ remoteError = ""

CleanStep ==
    /\ pc = "cleanInput"
    /\ cleanedText' = CleanText(analysisText)
    /\ pc' = "cleanDone"
    /\ UNCHANGED playerVars
    /\ UNCHANGED <<useDirect, request, audioMetrics, now, startTime, fetchLog, data,
                   analysisText, remoteResult, result, producer, staticCalls, remoteError>>

CleanNext == CleanStep

SpecClean == CleanInit /\ [][CleanNext]_vars

(***************************************************************************)
(* JSON.parse over texts of JSON lexemes.  A member symbol stands for one  *)
(* "key": value pair of an object.                                         *)
(***************************************************************************)
RemoteTranscript == <<"remote", " ", "restatement">>
\* what the remote model restates as duration and processing time
RemoteDuration == 999
RemoteProcessingTime == 7

RemoteFeedback ==
    [strengths |-> <<"Clear examples">>, weaknesses |-> <<"Rushed ending">>,
     suggestions |-> <<"Slow down">>, detailedFeedback |-> "A solid answer"]

RemoteScores ==
    [clarity |-> 80, relevance |-> 75, structure |-> 70, completeness |-> 65,
     confidence |-> 85]

RemoteKeyPoints == [covered |-> <<"teamwork">>, missed |-> <<"outcome">>]

Member(symbol) ==
    CASE symbol = "overallScore:82" -> [key |-> "overallScore", value |-> 82]
      [] symbol = "transcript:..." -> [key |-> "transcript", value |-> RemoteTranscript]
      [] symbol = "feedback:{...}" -> [key |-> "feedback", value |-> RemoteFeedback]
      [] symbol = "scores:{...}" -> [key |-> "scores", value |-> RemoteScores]
      [] symbol = "keyPoints:{...}" -> [key |-> "keyPoints", value |-> RemoteKeyPoints]
      [] symbol = "timeManagement:{e,p}" ->
            [key |-> "timeManagement",
             value |-> [efficiency |-> "excellent", pacing |-> "steady"]]
      [] symbol = "timeManagement:{d,e,p}" ->
            [key |-> "timeManagement",
             value |-> [duration |-> RemoteDuration, efficiency |-> "poor",
                        pacing |-> "slow"]]
      [] symbol = "processingTime:7" ->
            [key |-> "processingTime", value |-> RemoteProcessingTime]

MemberSymbols ==
    {"overallScore:82", "transcript:...", "feedback:{...}", "scores:{...}",
     "keyPoints:{...}", "timeManagement:{e,p}", "timeManagement:{d,e,p}",
     "processingTime:7"}

NotWhitespace(c) == c \notin Whitespace

\* members separated by commas: m , m , ... , m
IsMemberList(body) ==
    \/ body = <<>>
    \/ /\ Len(body) % 2 = 1
       /\ \A i \in 1..Len(body) :
             IF i % 2 = 1 THEN body[i] \in MemberSymbols ELSE body[i] = ","

\* the object a member list denotes; of two members with one key the later wins
ObjectOf(body) ==
    LET at == {i \in 1..Len(body) : i % 2 = 1}
        keys == {Member(body[i]).key : i \in at}
        last(k) == CHOOSE i \in at :
                      /\ Member(body[i]).key = k
                      /\ \A j \in at : Member(body[j]).key = k => j <= i
    IN  [k \in keys |-> Member(body[last(k)]).value]

ParseError == [kind |-> "error", fields |-> <<>>]

\* JSON.parse(text): kind is "object", "null", "number" or "error" (SyntaxError)
JSONParse(text) ==
    LET lexemes == SelectSeq(text, NotWhitespace)
    IN  IF lexemes = <<"null">> THEN [kind |-> "null", fields |-> <<>>]
        ELSE IF lexemes = <<"5">> THEN [kind |-> "number", fields |-> <<>>]
        ELSE IF /\ Len(lexemes) >= 2
                /\ lexemes[1] = "{"
                /\ lexemes[Len(lexemes)] = "}"
                /\ IsMemberList(SubSeq(lexemes, 2, Len(lexemes) - 1))
             THEN [kind |-> "object",
                   fields |-> ObjectOf(SubSeq(lexemes, 2, Len(lexemes) - 1))]
             ELSE ParseError

(***************************************************************************)
(* GeminiAnalysisService.analyzeAnswer after the response body arrived.    *)
(***************************************************************************)
\* { ...a, ...b }
Merge(a, b) ==
    [k \in (DOMAIN a) \cup (DOMAIN b) |-> IF k \in DOMAIN b THEN b[k] ELSE a[k]]

\* A value found in the response envelope: undefined, a string or a number.
Undefined == [kind |-> "undefined", text |-> <<>>]
Str(t) == [kind |-> "string", text |-> t]
TruthyNumber == [kind |-> "number", text |-> <<>>]

Truthy(v) == (v.kind = "string" /\ v.text # <<>>) \/ v.kind = "number"

Envelope(c, t, r) == [isNull |-> FALSE, candidates |-> c, text |-> t, response |-> r]
NullEnvelope == [isNull |-> TRUE, candidates |-> Undefined, text |-> Undefined,
                 response |-> Undefined]

NoShapeMatches(d) == ~Truthy(d.candidates) /\ ~Truthy(d.text) /\ ~Truthy(d.response)

\* Variant: the shapes probed in the opposite order.
ExtractTextLastShapeFirst(d) ==
    IF Truthy(d.response) THEN d.response
    ELSE IF Truthy(d.text) THEN d.text
    ELSE d.candidates

\* candidates[0].content.parts[0].text, else text, else response
ExtractText(d) ==
    IF Truthy(d.candidates) THEN d.candidates
    ELSE IF Truthy(d.text) THEN d.text
    ELSE d.response

\* Variant: the spread placed last, so the remote values win.
BuildReportTrustingRemote(parsed, req, processingTime) ==
    Merge([transcript |-> req.transcript,
           timeManagement |-> [duration |-> req.audioDuration],
           processingTime |-> processingTime],
          parsed)

\* { ...analysisResult, transcript, timeManagement: { ...analysisResult.timeManagement,
\*   duration }, processingTime }
BuildReport(parsed, req, processingTime) ==
    LET timeManagement == IF "timeManagement" \in DOMAIN parsed
                          THEN parsed.timeManagement ELSE <<>>
    IN  Merge(parsed,
              [transcript |-> req.transcript,
               timeManagement |-> Merge(timeManagement, [duration |-> req.audioDuration]),
               processingTime |-> processingTime])

Failure(err, text, cleaned) ==
    [ok |-> FALSE, error |-> err, report |-> <<>>, analysisText |-> text,
     cleanedText |-> cleaned]

\* lines 225-256: what analyzeAnswer does with the envelope d
FinishAnalyzeAnswer(req, d, processingTime) ==
    IF d.isNull THEN Failure("TypeError", <<>>, <<>>)
    ELSE IF NoShapeMatches(d)
    THEN Failure("No analysis results received from Gemini", <<>>, <<>>)
    ELSE LET chosen == ExtractText(d)
         IN  IF chosen.kind # "string" THEN Failure("TypeError", <<>>, <<>>)
             ELSE LET cleaned == CleanText(chosen.text)
                      parsed == JSONParse(cleaned)
                  IN  IF parsed.kind = "error"
                      THEN Failure("SyntaxError", chosen.text, cleaned)
                      ELSE IF parsed.kind = "null"
                      THEN Failure("TypeError", chosen.text, cleaned)
                      ELSE [ok |-> TRUE, error |-> "",
                            report |-> <<BuildReport(parsed.fields, req, processingTime)>>,
                            analysisText |-> chosen.text, cleanedText |-> cleaned]

(***************************************************************************)
(* GeminiAnalysisService.processAudioResponse                              *)
(***************************************************************************)
EagerMetrics(req) ==
    IF req.audioBlob.present /\ req.audioLevelData.present
    THEN <<analyzeAudioMetrics(req.audioBlob, req.audioDuration, req.transcript,
                               req.audioLevelData)>>
    ELSE <<>>

\* Variant: the transcript tested without trimming.
HasTranscriptUntrimmed(req) == Len(req.transcript) > 0

\* request.transcript.trim().length > 0
HasTranscript(req) == Len(Trim(req.transcript)) > 0

\* Variant: the computed metrics ignored.
FallbackTranscriptOnly(req, metrics, log) ==
    [pc |-> "returned", result |-> <<staticAnalyzeAnswer(req)>>,
     producer |-> IF metrics # <<>> THEN "metrics" ELSE "transcriptOnly",
     staticCalls |-> 1, fetchLog |-> log]

\* lines 99-105: the static fallback
Fallback(req, metrics, log) ==
    IF metrics # <<>>
    THEN [pc |-> "returned", result |-> <<generateStaticAnalysis(metrics[1])>>,
          producer |-> "metrics", staticCalls |-> 1, fetchLog |-> log]
    ELSE [pc |-> "returned", result |-> <<staticAnalyzeAnswer(req)>>,
          producer |-> "transcriptOnly", staticCalls |-> 1, fetchLog |-> log]

Endpoint == IF useDirect THEN "direct" ELSE "proxy"

\* Variant: no catch around the remote attempt.
PropagateRemoteFailure(req, metrics, log) ==
    [pc |-> "thrown", result |-> <<>>, producer |-> "none", staticCalls |-> 0,
     fetchLog |-> log]

\* Variant: a second remote attempt before falling back.
RetryRemoteOnce(req, metrics, log) ==
    IF Len(log) < 2
    THEN [pc |-> "awaitFetch", result |-> <<>>, producer |-> "none", staticCalls |-> 0,
          fetchLog |-> Append(log, Endpoint)]
    ELSE Fallback(req, metrics, log)

\* lines 94-105: the catch of processAudioResponse, then the static fallback
OnRemoteFailure(req, metrics, log) == Fallback(req, metrics, log)

(***************************************************************************)
(* Inputs of the orchestrator.                                             *)
(***************************************************************************)
\* what the caller supplies besides the transcript: nothing, a blob alone,
\* level statistics alone, or both (silent and small, or loud and large)
AudioSupplies ==
    {<<NoBlob, NoLevelData>>,
     <<Blob(500), NoLevelData>>,
     <<NoBlob, LevelData(MaxRmsThreshold, AvgRmsThreshold, 1)>>,
     <<Blob(500), LevelData(0, 0, 0)>>,
     <<Blob(BigBlob), LevelData(MaxRmsThreshold, 2 * AvgRmsThreshold, 2)>>}

CallDurations == {0, ShortLimit - 1, ShortLimit, LongDuration}

CallTranscripts == TextsUpTo({"a", " "}, MaxCallTranscriptLen) \cup {LongTranscript}

Requests ==
    {Request(t, d, a[1], a[2]) :
        t \in CallTranscripts, d \in CallDurations, a \in AudioSupplies}

RECURSIVE JoinComma(_)
JoinComma(members) ==
    IF Len(members) <= 1 THEN members
    ELSE <<Head(members), ",">> \o JoinComma(Tail(members))

ObjectText(members) == <<"{">> \o JoinComma(members) \o <<"}">>

AskedMembers ==
    <<"overallScore:82", "feedback:{...}", "scores:{...}", "keyPoints:{...}",
      "timeManagement:{e,p}">>

RestatingMembers ==
    <<"overallScore:82", "transcript:...", "feedback:{...}", "scores:{...}",
      "keyPoints:{...}", "timeManagement:{d,e,p}", "processingTime:7">>

FullText == ObjectText(AskedMembers)
RestatingText == ObjectText(RestatingMembers)
ScoreOnlyText == ObjectText(<<"overallScore:82">>)

\* texts that are valid JSON
ValidTexts ==
    {FullText, RestatingText, ObjectText(<<>>), ScoreOnlyText,
     ObjectText(<<"timeManagement:{d,e,p}", "timeManagement:{e,p}">>),
     <<"null">>, <<"5">>}

\* texts that are not
MalformedTexts ==
    {<<"x">>, DropLast(FullText), <<"{", "overallScore:82", ",", "}">>}

Wrapped(t) ==
    {t, JsonFenced(t), PlainFenced(t), <<" ", "\n">> \o t \o <<"\n">>,
     JsonFence \o <<"\n">> \o t, <<"x">> \o PlainFenced(t)}

RemoteTexts ==
    ValidTexts \cup MalformedTexts \cup Wrapped(RestatingText) \cup Wrapped(<<"x">>)

\* Each shape carries a text of its own, so the shape chosen shows in the result.
Envelopes ==
    {Envelope(c, t, r) :
        c \in {Undefined, Str(<<>>), Str(FullText)},
        t \in {Undefined, Str(<<>>), Str(RestatingText)},
        r \in {Undefined, Str(<<>>), Str(ScoreOnlyText)}}
        \cup {Envelope(Undefined, Undefined, Str(t)) : t \in RemoteTexts}
        \cup {Envelope(TruthyNumber, Str(FullText), Undefined),
              Envelope(Undefined, TruthyNumber, Str(FullText)),
              Envelope(Undefined, Undefined, TruthyNumber),
              NullEnvelope}

Ticks == {dt \in 0..1 : now + dt <= MaxClock}

(***************************************************************************)
(* The orchestrator and the remote client as a state machine.  Each await  *)
(* ends an action; the settlement of the awaited promise begins the next.  *)
(***************************************************************************)
Init ==
    /\ pc = "idle"
    /\ PlayerInit
    /\ useDirect \in BOOLEAN
    /\ request = NoRequest
    /\ audioMetrics = <<>>
    /\ now = 0
    /\ startTime = 0
    /\ fetchLog = <<>>
    /\ data = <<>>
    /\ analysisText = <<>>
    /\ cleanedText = <<>>
    /\ remoteResult = <<>>
    /\ result = <<>>
    /\ producer = "none"
    /\ staticCalls = 0
    /\ remoteError = ""

\* processAudioResponse(req) up to its first await (or to its return when the
\* transcript is blank); analyzeAnswer up to the await of fetch.
ProcessAudioResponse(req) ==
    /\ pc = "idle"
    /\ request' = req
    /\ audioMetrics' = EagerMetrics(req)
    /\ IF HasTranscript(req)
       THEN /\ startTime' = now
            /\ fetchLog' = <<Endpoint>>
            /\ pc' = "awaitFetch"
            /\ UNCHANGED <<result, producer, staticCalls>>
       ELSE LET f == Fallback(req, EagerMetrics(req), <<>>)
            IN  /\ pc' = f.pc
                /\ result' = f.result
                /\ producer' = f.producer
                /\ staticCalls' = f.staticCalls
                /\ fetchLog' = f.fetchLog
                /\ UNCHANGED startTime
    /\ UNCHANGED playerVars
    /\ UNCHANGED <<useDirect, now, data, analysisText, cleanedText, remoteResult,
                   remoteError>>

\* the remote client throws err: analyzeAnswer's catch logs and rethrows
RemoteThrows(err) ==
    /\ remoteError' = err
    /\ pc' = "remoteFailed"

\* fetch rejects (transport failure)
FetchRejects ==
    /\ pc = "awaitFetch"
    /\ RemoteThrows("TypeError: Failed to fetch")
    /\ \E dt \in Ticks : now' = now + dt
    /\ UNCHANGED playerVars
    /\ UNCHANGED <<useDirect, request, audioMetrics, startTime, fetchLog, data,
                   analysisText, cleanedText, remoteResult, result, producer,
                   staticCalls>>

\* fetch resolves with a response; ok is response.ok
FetchResolves(ok) ==
    /\ pc = "awaitFetch"
    /\ pc' = IF ok THEN "awaitJson" ELSE "awaitText"
    /\ \E dt \in Ticks : now' = now + dt
    /\ UNCHANGED playerVars
    /\ UNCHANGED <<useDirect, request, audioMetrics, startTime, fetchLog, data,
                   analysisText, cleanedText, remoteResult, result, producer,
                   staticCalls, remoteError>>

\* response.text() of a non-success response settles; either way analyzeAnswer throws
ErrorBodySettles(resolved) ==
    /\ pc = "awaitText"
    /\ RemoteThrows(IF resolved THEN "Gemini API error" ELSE "TypeError: body")
    /\ UNCHANGED playerVars
    /\ UNCHANGED <<useDirect, request, audioMetrics, now, startTime, fetchLog, data,
                   analysisText, cleanedText, remoteResult, result, producer,
                   staticCalls>>

\* response.json() rejects: the body is no JSON
JsonRejects ==
    /\ pc = "awaitJson"
    /\ RemoteThrows("SyntaxError: body")
    /\ UNCHANGED playerVars
    /\ UNCHANGED <<useDirect, request, audioMetrics, now, startTime, fetchLog, data,
                   analysisText, cleanedText, remoteResult, result, producer,
                   staticCalls>>

\* response.json() resolves with envelope d; the rest of analyzeAnswer runs
JsonResolves(d) ==
    /\ pc = "awaitJson"
    /\ \E dt \in Ticks :
        LET out == FinishAnalyzeAnswer(request, d, (now + dt) - startTime)
        IN  /\ now' = now + dt
            /\ data' = <<d>>
            /\ analysisText' = out.analysisText
            /\ cleanedText' = out.cleanedText
            /\ remoteResult' = out.report
            /\ remoteError' = out.error
            /\ pc' = IF out.ok THEN "remoteSucceeded" ELSE "remoteFailed"
    /\ UNCHANGED playerVars
    /\ UNCHANGED <<useDirect, request, audioMetrics, startTime, fetchLog, result,
                   producer, staticCalls>>

\* return await this.analyzeAnswer(request), fulfilled
ReturnRemote ==
    /\ pc = "remoteSucceeded"
    /\ result' = remoteResult
    /\ producer' = "remote"
    /\ pc' = "returned"
    /\ UNCHANGED playerVars
    /\ UNCHANGED <<useDirect, request, audioMetrics, now, startTime, fetchLog, data,
                   analysisText, cleanedText, remoteResult, staticCalls, remoteError>>

\* return await this.analyzeAnswer(request), rejected
HandleRemoteFailure ==
    /\ pc = "remoteFailed"
    /\ LET f == OnRemoteFailure(request, audioMetrics, fetchLog)
       IN  /\ pc' = f.pc
           /\ result' = f.result
           /\ producer' = f.producer
           /\ staticCalls' = f.staticCalls
           /\ fetchLog' = f.fetchLog
    /\ UNCHANGED playerVars
    /\ UNCHANGED <<useDirect, request, audioMetrics, now, startTime, data,
                   analysisText, cleanedText, remoteResult, remoteError>>

\* the caller takes the report; the service is ready for the next request
CallerTakesResult ==
    /\ pc = "returned"
    /\ pc' = "idle"
    /\ request' = NoRequest
    /\ audioMetrics' = <<>>
    /\ startTime' = 0
    /\ fetchLog' = <<>>
    /\ data' = <<>>
    /\ analysisText' = <<>>
    /\ cleanedText' = <<>>
    /\ remoteResult' = <<>>
    /\ result' = <<>>
    /\ producer' = "none"
    /\ staticCalls' = 0
    /\ remoteError' = ""
    /\ UNCHANGED playerVars
    /\ UNCHANGED <<useDirect, now>>

Next ==
    \/ \E req \in Requests : ProcessAudioResponse(req)
    \/ FetchRejects
    \/ \E ok \in BOOLEAN : FetchResolves(ok)
    \/ \E resolved \in BOOLEAN : ErrorBodySettles(resolved)
    \/ JsonRejects
    \/ \E d \in Envelopes : JsonResolves(d)
    \/ ReturnRemote
    \/ HandleRemoteFailure
    \/ CallerTakesResult

Spec == Init /\ [][Next]_vars

(***************************************************************************)
(* Claims about the metrics extractor and the heuristic scorer             *)
(* (specification SpecMetrics).                                            *)
(***************************************************************************)
\* The metrics in audioMetrics were computed by analyzeAudioMetrics from request.
MetricsComputed == pc \in {"metricsReady", "reportReady"} /\ request.audioBlob.present

\* C6: whenever analyzeAudioMetrics is given a transcript with word count > 0,
\* the hasVoice flag of its result is true, whatever the byte size, the
\* duration and the peak and mean levels are.
C6_WordsImplyVoice ==
    (MetricsComputed /\ WordCount(request.transcript) > 0) => audioMetrics[1].hasVoice

\* Reached: a worded transcript with duration 0, byte size 0 and zero levels.
C6_Witness ==
    /\ MetricsComputed
    /\ WordCount(request.transcript) > 0
    /\ request.audioDuration = 0
    /\ request.audioBlob.size = 0
    /\ request.audioLevelData.maxRms = 0
    /\ request.audioLevelData.sumRms = 0
    /\ audioMetrics[1].hasVoice

\* C7: whenever analyzeAudioMetrics is given word count 0 and byte size
\* below 2000, hasVoice is false, whatever the duration and levels are.
C7_SilentSmallBlobNoVoice ==
    (MetricsComputed /\ WordCount(request.transcript) = 0
        /\ request.audioBlob.size < MinBlobSize)
    => ~audioMetrics[1].hasVoice

\* Reached: no words, a blob one byte under the limit, levels above both
\* thresholds and a positive duration.
C7_Witness ==
    /\ MetricsComputed
    /\ WordCount(request.transcript) = 0
    /\ request.audioBlob.size = MinBlobSize - 1
    /\ request.audioDuration > 0
    /\ request.audioLevelData.maxRms >= MaxRmsThreshold
    /\ request.audioLevelData.sumRms >= AvgRmsThreshold * request.audioLevelData.frames
    /\ request.audioLevelData.frames > 0
    /\ ~audioMetrics[1].hasVoice

SubScoreNames == {"clarity", "relevance", "structure", "completeness", "confidence"}

\* C8: every report generateStaticAnalysis returns has its five sub-scores
\* in 0..100 and an overallScore of 0, 20 or 50.
C8_StaticScoresInRange ==
    (pc = "reportReady") =>
        /\ \A n \in SubScoreNames : result[1].scores[n] \in 0..100
        /\ DOMAIN result[1].scores = SubScoreNames
        /\ result[1].overallScore \in {0, 20, 50}

\* Reached: a report for metrics that say voice is present although the
\* transcript has no word (a value analyzeAudioMetrics need not have computed).
C8_Witness ==
    /\ pc = "reportReady"
    /\ audioMetrics[1].hasVoice
    /\ audioMetrics[1].wordCount = 0
    /\ result[1].overallScore = 50
    /\ result[1].scores.clarity = 60

(***************************************************************************)
(* Claims about the orchestrator and the remote client (specification      *)
(* Spec).                                                                  *)
(***************************************************************************)
Heuristic == {"metrics", "transcriptOnly"}

\* C1: processAudioResponse never raises an error to its caller: whatever
\* the request and whatever the outcome of the remote call, the call is never
\* left with a thrown error, and once it has completed it has returned a report.
C1_NeverThrows ==
    /\ pc # "thrown"
    /\ (pc = "returned") => (result # <<>> /\ producer \in Heuristic \cup {"remote"})

\* Reached: a report was returned for a zero-duration request after the remote
\* model's text failed to parse.
C1_Witness ==
    /\ pc = "returned"
    /\ remoteError = "SyntaxError"
    /\ request.audioDuration = 0
    /\ result # <<>>

ReportFields ==
    {"overallScore", "transcript", "feedback", "scores", "keyPoints", "timeManagement",
     "processingTime"}

FullyPopulated(r) ==
    /\ ReportFields \subseteq DOMAIN r
    /\ {"strengths", "weaknesses", "suggestions", "detailedFeedback"}
          \subseteq DOMAIN r.feedback
    /\ SubScoreNames \subseteq DOMAIN r.scores
    /\ {"covered", "missed"} \subseteq DOMAIN r.keyPoints
    /\ {"duration", "efficiency", "pacing"} \subseteq DOMAIN r.timeManagement

\* C2: every report processAudioResponse returns is fully populated, whichever
\* producer made it: overallScore, transcript, feedback (four parts), the five
\* sub-scores, keyPoints (two parts), timeManagement (three parts) and
\* processingTime are all present.
C2_EveryReportFullyPopulated ==
    (pc = "returned") => FullyPopulated(result[1])

\* C3: no retries.  At most one network request is issued during a call, and
\* only when the call begins; after a failed remote attempt the next step is
\* the heuristic fallback and the return; the heuristic scorer runs only when
\* the call begins with a blank transcript or after the remote attempt failed.
C3_NoRetry ==
    [][/\ Len(fetchLog') <= 1
       /\ (fetchLog' # fetchLog /\ fetchLog' # <<>>) => pc = "idle"
       /\ (pc = "remoteFailed") =>
             (pc' = "returned" /\ producer' \in Heuristic /\ fetchLog' = fetchLog)
       /\ (staticCalls' > staticCalls) =>
             (pc = "remoteFailed" \/ (pc = "idle" /\ fetchLog' = <<>>))]_vars

\* Reached: the remote call answered with a non-success status, one request
\* was issued and a heuristic report was returned.
C3_Witness ==
    /\ pc = "returned"
    /\ remoteError = "Gemini API error"
    /\ Len(fetchLog) = 1
    /\ producer \in Heuristic
    /\ staticCalls = 1

Overlaid == {"transcript", "timeManagement", "processingTime"}

\* C4: when analyzeAnswer succeeds, its report carries the request's transcript
\* and the request's audioDuration as timeManagement.duration, whatever the
\* remote JSON said; processingTime is the elapsed time measured locally; every
\* other field of the parsed result, and every other part of its
\* timeManagement, is passed through unchanged.
C4_OverlayOnSuccess ==
    (remoteResult # <<>>) =>
        LET r == remoteResult[1]
            parsed == JSONParse(cleanedText).fields
            parsedTime == IF "timeManagement" \in DOMAIN parsed
                          THEN parsed.timeManagement ELSE <<>>
        IN  /\ DOMAIN r = (DOMAIN parsed) \cup Overlaid
            /\ DOMAIN r.timeManagement = (DOMAIN parsedTime) \cup {"duration"}
            /\ r.transcript = request.transcript
            /\ r.timeManagement.duration = request.audioDuration
            /\ r.processingTime = now - startTime
            /\ \A k \in (DOMAIN parsed) \ Overlaid : r[k] = parsed[k]
            /\ \A k \in (DOMAIN parsedTime) \ {"duration"} :
                  r.timeManagement[k] = parsedTime[k]

\* Reached: the remote JSON restated a transcript, a duration and a processing
\* time of its own, none of which made it into the report.
C4_Witness ==
    /\ remoteResult # <<>>
    /\ pc = "returned"
    /\ producer = "remote"
    /\ cleanedText = RestatingText
    /\ JSONParse(cleanedText).fields.transcript = RemoteTranscript
    /\ JSONParse(cleanedText).fields.timeManagement.duration = RemoteDuration
    /\ result[1].transcript = request.transcript
    /\ result[1].timeManagement.duration = request.audioDuration
    /\ result[1].timeManagement.efficiency = "poor"
    /\ result[1].processingTime = 1
    /\ startTime = 0

\* C5: when the body of a successful response holds no usable text in any of
\* the three shapes, analyzeAnswer fails with its "no results" error and returns
\* no report; otherwise the text is taken from the first shape that holds one,
\* in the order candidates, text, response.
C5_ShapeExtraction ==
    (data # <<>> /\ ~data[1].isNull) =>
        LET d == data[1]
            usable(v) == v.kind # "undefined" /\ v # Str(<<>>)
            first == IF usable(d.candidates) THEN d.candidates
                     ELSE IF usable(d.text) THEN d.text ELSE d.response
        IN  IF ~usable(d.candidates) /\ ~usable(d.text) /\ ~usable(d.response)
            THEN /\ remoteResult = <<>>
                 /\ remoteError = "No analysis results received from Gemini"
                 /\ producer # "remote"
                 /\ pc \in {"remoteFailed", "returned"}
            ELSE /\ remoteError # "No analysis results received from Gemini"
                 /\ (first.kind = "string") => analysisText = first.text

\* Reached: the envelope has an empty text and nothing else; the remote client
\* failed and the call returned a heuristic report.
C5_Witness ==
    /\ data = <<Envelope(Undefined, Str(<<>>), Undefined)>>
    /\ remoteResult = <<>>
    /\ remoteError = "No analysis results received from Gemini"
    /\ pc = "returned"
    /\ producer \in Heuristic

RemoteAttemptFailed == pc = "returned" /\ remoteError # ""

Unavailable == "AI analysis temporarily unavailable"

Contains(seq, x) == \E i \in 1..Len(seq) : seq[i] = x

\* C9 as stated: every heuristic report returned because the remote attempt
\* failed lists "AI analysis temporarily unavailable" among its weaknesses.
C9_FallbackAlwaysSignalsUnavailable ==
    RemoteAttemptFailed => Contains(result[1].feedback.weaknesses, Unavailable)

\* C9, amended: a heuristic report returned because the remote attempt failed
\* lists "AI analysis temporarily unavailable" among its weaknesses when the
\* request's audioDuration is at least 10 seconds; when it is shorter the only
\* weakness listed is "Response is very short".
C9_FallbackSignalsUnavailableUnlessShort ==
    RemoteAttemptFailed =>
        /\ producer \in Heuristic
        /\ IF request.audioDuration >= ShortLimit
           THEN Contains(result[1].feedback.weaknesses, Unavailable)
           ELSE result[1].feedback.weaknesses = <<"Response is very short">>

\* Reached: 60 seconds, the 120-word transcript, a failed remote call, and a
\* report with overallScore 50 and the weakness.
C9_Witness ==
    /\ RemoteAttemptFailed
    /\ request.audioDuration = LongDuration
    /\ request.transcript = LongTranscript
    /\ WordCount(request.transcript) = ScenarioWords
    /\ result[1].overallScore = 50
    /\ Contains(result[1].feedback.weaknesses, Unavailable)

(***************************************************************************)
(* Claims about the fence-cleaning step (specification SpecClean).         *)
(***************************************************************************)
\* An inner text that neither begins nor ends with whitespace or a fence.
PlainInner(t) ==
    \/ t = <<>>
    \/ /\ Head(t) \notin Whitespace
       /\ t[Len(t)] \notin Whitespace
       /\ ~StartsWith(t, Fence)
       /\ ~EndsWith(t, Fence)

\* C10: cleaning FENCE json \n t \n FENCE and cleaning FENCE \n t \n FENCE
\* (FENCE being three backticks)
\* both yield exactly t, for every inner text t that neither begins nor ends
\* with whitespace or a fence; a text with no leading fence is only trimmed.
C10_FenceRoundTrip ==
    (pc = "cleanDone") =>
        /\ \A t \in InnerTexts :
              (PlainInner(t) /\ analysisText \in {JsonFenced(t), PlainFenced(t)})
              => cleanedText = t
        /\ ~StartsWith(Trim(analysisText), Fence) => cleanedText = Trim(analysisText)

\* Reached: a json-fenced inner text of full length has been cleaned.
C10_Witness ==
    /\ pc = "cleanDone"
    /\ \E t \in InnerTexts :
          /\ PlainInner(t)
          /\ Len(t) = MaxInnerLen
          /\ analysisText = JsonFenced(t)
          /\ cleanedText = t

(***************************************************************************)
(* Specification of the VoiceLibrary preview player.  An Audio element is  *)
(* [file, status]: "pending" while its play() promise is unsettled,        *)
(* "playing", "paused" (pause() was called on it), "failed" (play()        *)
(* rejected by itself) or "ended".  pause() on a pending element rejects   *)
(* its play() promise; that rejection is caught at line 327 and changes    *)
(* no state.  The loadedmetadata listener only writes audioDurations,      *)
(* which is left out.                                                      *)
(***************************************************************************)
VoiceFiles == 1 .. NumFiles

\* HTMLMediaElement.pause() on element i
Pause(els, i) ==
    [els EXCEPT ![i].status = IF @ \in {"pending", "playing"} THEN "paused" ELSE @]

PreviewInit ==
    /\ pc = "preview"
    /\ IdleLocals
    /\ request = NoRequest
    /\ audioMetrics = <<>>
    /\ result = <<>>
    /\ PlayerInit

\* playPreview(file) up to its await or its early return
ClickPreview(f) ==
    /\ pc = "preview"
    /\ LET stopped == IF audioPreviewRef # <<>>
                      THEN Pause(audios, audioPreviewRef[1])
                      ELSE audios
       IN  IF audioPreviewRef # <<>> /\ currentlyPlaying = <<f>>
           THEN /\ audios' = stopped
                /\ isPlaying' = FALSE
                /\ currentlyPlaying' = <<>>
                /\ UNCHANGED audioPreviewRef
           ELSE /\ Len(audios) < MaxElements
                /\ audios' = Append(stopped, [file |-> f, status |-> "pending"])
                /\ audioPreviewRef' = <<Len(audios) + 1>>
                /\ UNCHANGED <<isPlaying, currentlyPlaying>>
    /\ UNCHANGED serviceVars

\* await audio.play() resolves: lines 325-326
PlayResolves(i) ==
    /\ pc = "preview"
    /\ audios[i].status = "pending"
    /\ audios' = [audios EXCEPT ![i].status = "playing"]
    /\ isPlaying' = TRUE
    /\ currentlyPlaying' = <<audios[i].file>>
    /\ UNCHANGED audioPreviewRef
    /\ UNCHANGED serviceVars

\* await audio.play() rejects (the file cannot be loaded or played): the catch
PlayRejects(i) ==
    /\ pc = "preview"
    /\ audios[i].status = "pending"
    /\ audios' = [audios EXCEPT ![i].status = "failed"]
    /\ UNCHANGED <<audioPreviewRef, isPlaying, currentlyPlaying>>
    /\ UNCHANGED serviceVars

\* the 'ended' listener of element i: lines 312-315
Ended(i) ==
    /\ pc = "preview"
    /\ audios[i].status = "playing"
    /\ audios' = [audios EXCEPT ![i].status = "ended"]
    /\ isPlaying' = FALSE
    /\ currentlyPlaying' = <<>>
    /\ UNCHANGED audioPreviewRef
    /\ UNCHANGED serviceVars

PreviewNext ==
    \/ \E f \in VoiceFiles : ClickPreview(f)
    \/ \E i \in DOMAIN audios : PlayResolves(i)
    \/ \E i \in DOMAIN audios : PlayRejects(i)
    \/ \E i \in DOMAIN audios : Ended(i)

SpecPreview == PreviewInit /\ [][PreviewNext]_vars

(***************************************************************************)
(* Further claims about the orchestrator (specification Spec).             *)
(***************************************************************************)
CallActive ==
    pc \in {"awaitFetch", "awaitText", "awaitJson", "remoteSucceeded", "remoteFailed",
            "returned", "thrown"}

NonBlank(t) == Trim(t) # <<>>

\* C11 as stated: for every request whose transcript is a non-empty string,
\* processAudioResponse attempts the remote client.
C11_NonEmptyTranscriptAttemptsRemote ==
    (CallActive /\ request.transcript # <<>>) => fetchLog # <<>>

\* C11, amended: for every request whose transcript is not blank (non-empty
\* after trimming), processAudioResponse attempts the remote client before any
\* heuristic scoring, and if the attempt succeeds the returned report is exactly
\* the remote report and the heuristic scorer is not run; for an empty or
\* whitespace-only transcript the remote client is not attempted at all.
C11_NonBlankTranscriptAttemptsRemoteFirst ==
    CallActive =>
        /\ NonBlank(request.transcript) =>
              /\ Len(fetchLog) = 1
              /\ (staticCalls > 0) => remoteError # ""
        /\ (pc = "returned" /\ remoteResult # <<>>) =>
              /\ result = remoteResult
              /\ producer = "remote"
              /\ staticCalls = 0
        /\ ~NonBlank(request.transcript) =>
              /\ fetchLog = <<>>
              /\ remoteResult = <<>>
              /\ remoteError = ""

\* Reached: the remote report was returned as it is, the metrics had been
\* computed from the supplied statistics and the scorer never ran.
C11_Witness ==
    /\ pc = "returned"
    /\ NonBlank(request.transcript)
    /\ audioMetrics # <<>>
    /\ remoteResult # <<>>
    /\ result = remoteResult
    /\ staticCalls = 0

\* The metrics value the transcript-only fallback derives from a request.
MinimalMetrics(req) ==
    [duration   |-> req.audioDuration,
     hasVoice   |-> WordCount(req.transcript) > 0,
     transcript |-> req.transcript,
     wordCount  |-> WordCount(req.transcript),
     avgRms     |-> Fraction(0, 1),
     maxRms     |-> 0]

StatsSupplied(req) == req.audioBlob.present /\ req.audioLevelData.present

\* C12: on the fallback path (the remote attempt failed, or the transcript is
\* blank) the returned report is generateStaticAnalysis of the metrics
\* analyzeAudioMetrics computes from the supplied blob and level statistics when
\* both were supplied, and otherwise generateStaticAnalysis of the metrics with
\* the request's duration and transcript, hasVoice = (word count > 0) and zero
\* mean and peak levels.
C12_FallbackReport ==
    (pc = "returned") =>
        /\ (producer \in Heuristic) <=> (remoteError # "" \/ ~NonBlank(request.transcript))
        /\ (producer \in Heuristic) =>
              result[1] =
                 IF StatsSupplied(request)
                 THEN generateStaticAnalysis(
                         analyzeAudioMetrics(request.audioBlob, request.audioDuration,
                                             request.transcript, request.audioLevelData))
                 ELSE generateStaticAnalysis(MinimalMetrics(request))

\* Reached: an empty transcript with a loud, large recording: the metrics say
\* voice is present, which the transcript alone would not.
C12_Witness ==
    /\ pc = "returned"
    /\ request.transcript = <<>>
    /\ StatsSupplied(request)
    /\ producer = "metrics"
    /\ audioMetrics[1].hasVoice
    /\ result[1].transcript = VoicePlaceholder
    /\ result[1].overallScore = 50
    /\ ~MinimalMetrics(request).hasVoice

NoVoice == "No voice detected"

\* C14: whenever the remote client was attempted and failed, the fallback
\* report is made with voice present, on both fallback sources: its
\* overallScore is 20 or 50, never 0, and its weaknesses do not contain
\* "No voice detected".
C14_FailedAttemptHasVoice ==
    RemoteAttemptFailed =>
        /\ WordCount(request.transcript) > 0
        /\ result[1].overallScore \in {20, 50}
        /\ ~Contains(result[1].feedback.weaknesses, NoVoice)

\* Reached: a failed attempt whose metrics come from a small, silent recording
\* of zero duration.
C14_Witness ==
    /\ RemoteAttemptFailed
    /\ producer = "metrics"
    /\ request.audioBlob.size < MinBlobSize
    /\ request.audioLevelData.maxRms = 0
    /\ request.audioDuration = 0
    /\ result[1].overallScore = 20

Placeholders == {VoicePlaceholder, NoVoicePlaceholder}

\* C15: on every path (remote success, metrics-based heuristic,
\* transcript-only heuristic) the returned report's timeManagement.duration is
\* the request's audioDuration, its transcript is the request's transcript
\* whenever that is not the empty string, and a placeholder appears only for the
\* empty transcript.
C15_ReportEchoesRequest ==
    (pc = "returned") =>
        /\ "timeManagement" \in DOMAIN result[1]
        /\ "duration" \in DOMAIN result[1].timeManagement
        /\ "transcript" \in DOMAIN result[1]
        /\ result[1].timeManagement.duration = request.audioDuration
        /\ (request.transcript # <<>>) => result[1].transcript = request.transcript
        /\ (request.transcript = <<>>) <=> (result[1].transcript \in Placeholders)

\* Reached: a whitespace-only transcript echoed by the transcript-only fallback.
C15_Witness ==
    /\ pc = "returned"
    /\ producer = "transcriptOnly"
    /\ request.transcript = <<" ">>
    /\ result[1].transcript = <<" ">>
    /\ result[1].timeManagement.duration = request.audioDuration

(***************************************************************************)
(* A further claim about the heuristic scorer (specification SpecMetrics). *)
(***************************************************************************)
\* C13: generateStaticAnalysis gives overallScore 0 when hasVoice is false,
\* whatever the duration; 20 when hasVoice is true and duration < 10; 50 when
\* hasVoice is true and duration >= 10.  Without voice the weaknesses contain
\* "No voice detected".
C13_StaticOverallScore ==
    (pc = "reportReady") =>
        LET m == audioMetrics[1]
            r == result[1]
        IN  /\ r.overallScore = IF ~m.hasVoice THEN 0
                                ELSE IF m.duration < ShortLimit THEN 20 ELSE 50
            /\ ~m.hasVoice => Contains(r.feedback.weaknesses, NoVoice)

\* Reached: 5 seconds, an empty transcript and 500 bytes: no voice, score 0
\* and the weakness.
C13_Witness ==
    /\ pc = "reportReady"
    /\ MetricsComputed
    /\ request.audioDuration = 5
    /\ request.transcript = <<>>
    /\ request.audioBlob.size = 500
    /\ ~audioMetrics[1].hasVoice
    /\ result[1].overallScore = 0
    /\ Contains(result[1].feedback.weaknesses, NoVoice)

(***************************************************************************)
(* The claim about the preview player (specification SpecPreview).         *)
(***************************************************************************)
PlayingElements == {i \in DOMAIN audios : audios[i].status = "playing"}

C16_FlagsAgree == isPlaying <=> (currentlyPlaying # <<>>)

C16_AtMostOnePlaying == Cardinality(PlayingElements) <= 1

C16_NamedFileIsPlaying ==
    (currentlyPlaying # <<>>) =>
        /\ audioPreviewRef # <<>>
        /\ audios[audioPreviewRef[1]].file = currentlyPlaying[1]
        /\ audios[audioPreviewRef[1]].status = "playing"

\* C16 as stated: after any interleaving of preview clicks, play() settlements
\* and 'ended' events, isPlaying is true exactly when currentlyPlaying is
\* non-null; whenever currentlyPlaying names a file, the element held in
\* audioPreviewRef is that file's element and it is playing; at most one
\* preview element is playing at any time.
C16_DisplayAgreesWithAudio ==
    /\ C16_FlagsAgree
    /\ C16_NamedFileIsPlaying
    /\ C16_AtMostOnePlaying

\* The state the player is left in after: file 1 plays, file 2 is clicked, and
\* file 2's play() rejects.
C16_StaleDisplay ==
    /\ currentlyPlaying = <<1>>
    /\ isPlaying
    /\ audioPreviewRef # <<>>
    /\ audios[audioPreviewRef[1]].file = 2
    /\ audios[audioPreviewRef[1]].status = "failed"
    /\ PlayingElements = {}

====
